---- MODULE Spec2Model ----
(***************************************************************************)
(* A model of the delta-tree crate (src/tree/mod.rs): the parquet file     *)
(* name codec (FILENAME_REGEX, ParquetDeltaFile::from_string / name) and   *)
(* the partition tree (DeltaTree::from_paths / files / parse_path /        *)
(* key_value / build_partition).                                           *)
(*                                                                         *)
(* A Rust string is a TLA+ string, read character by character with Char.  *)
(* The character written "#" stands for ARABIC-INDIC DIGIT THREE (U+0663), *)
(* a decimal digit outside ASCII; no other use is made of "#".             *)
(* A panic is the value Panic(msg); a normal return is Ok(v).              *)
(***************************************************************************)
EXTENDS Integers, Sequences, FiniteSets, TLC

VARIABLES
    input_files,        \* the Vec<String> handed to DeltaTree::from_paths
    tree,               \* what from_paths(input_files) returned (or NotRun)
    files_from_tree,    \* what files() of the tree returned (or NotRun)
    reordered,          \* a permutation of input_files
    tree_reordered,     \* what from_paths(reordered) returned (or NotRun)
    input_name,         \* the &str handed to ParquetDeltaFile::from_string
    parsed,             \* what from_string(input_name) returned (or NotRun)
    rendered,           \* what name() of the parsed file returned (or NotRun)
    component,          \* the &str handed to DeltaTree::key_value
    kv                  \* what key_value(component) returned (or NotRun)

vars == <<input_files, tree, files_from_tree, reordered, tree_reordered,
          input_name, parsed, rendered, component, kv>>

treeVars == <<input_files, tree, files_from_tree, reordered, tree_reordered>>
codecVars == <<input_name, parsed, rendered>>
kvVars == <<component, kv>>

-----------------------------------------------------------------------------
(* Results of a call. *)

NotRun == [tag |-> "NotRun"]
Ok(v) == [tag |-> "Ok", val |-> v]
Panic(msg) == [tag |-> "Panic", msg |-> msg]
IsOk(r) == r.tag = "Ok"
IsPanic(r) == r.tag = "Panic"

-----------------------------------------------------------------------------
(* Characters and strings. *)

\* The character at position i (from 1) of a string.
Char(s, i) == SubSeq(s, i, i)

AsciiDigit == {"0", "1", "2", "3", "4", "5", "6", "7", "8", "9"}
NonAsciiDigit == {"#"}

DigitChars == <<"0", "1", "2", "3", "4", "5", "6", "7", "8", "9">>
UpperChars ==
    <<"A", "B", "C", "D", "E", "F", "G", "H", "I", "J", "K", "L", "M", "N",
      "O", "P", "Q", "R", "S", "T", "U", "V", "W", "X", "Y", "Z">>
LowerChars ==
    <<"a", "b", "c", "d", "e", "f", "g", "h", "i", "j", "k", "l", "m", "n",
      "o", "p", "q", "r", "s", "t", "u", "v", "w", "x", "y", "z">>
Punctuation == {"-", ".", "/", "=", "_"}

Chars ==
    {DigitChars[i] : i \in 1..10} \cup {UpperChars[i] : i \in 1..26}
        \cup {LowerChars[i] : i \in 1..26} \cup Punctuation
        \cup NonAsciiDigit

\* The code point of a character: the Ord of str compares UTF-8 bytes, which
\* orders strings as their code point sequences.
CharCode ==
    [c \in Chars |->
        CASE c \in AsciiDigit -> 47 + (CHOOSE i \in 1..10 : DigitChars[i] = c)
          [] \E i \in 1..26 : UpperChars[i] = c ->
                64 + (CHOOSE i \in 1..26 : UpperChars[i] = c)
          [] \E i \in 1..26 : LowerChars[i] = c ->
                96 + (CHOOSE i \in 1..26 : LowerChars[i] = c)
          [] c = "-" -> 45
          [] c = "." -> 46
          [] c = "/" -> 47
          [] c = "=" -> 61
          [] c = "_" -> 95
          [] c = "#" -> 1635]

LowerHex == DigitChars \o <<"a", "b", "c", "d", "e", "f">>
UpperHex == DigitChars \o <<"A", "B", "C", "D", "E", "F">>

\* The regex classes: \d is Unicode-aware (any decimal digit), the hex
\* class is the explicit [0-9a-fA-F].
ClassDigit == AsciiDigit \cup NonAsciiDigit
ClassHex == {LowerHex[i] : i \in 1..16} \cup {UpperHex[i] : i \in 1..16}

DigitVal(c) == (CHOOSE i \in 1..10 : DigitChars[i] = c) - 1
HexVal(c) == (CHOOSE i \in 1..16 : LowerHex[i] = c \/ UpperHex[i] = c) - 1

\* format!("{:0w$}", digits): zero padding on the left up to width w, never
\* a truncation.
RECURSIVE ZeroPad(_, _)
ZeroPad(digits, w) ==
    IF Len(digits) >= w THEN digits ELSE ZeroPad("0" \o digits, w)

RECURSIVE NatDecimal(_)
\* Display of an unsigned integer.
NatDecimal(n) ==
    IF n < 10 THEN DigitChars[n + 1]
    ELSE NatDecimal(n \div 10) \o DigitChars[(n % 10) + 1]

-----------------------------------------------------------------------------
(* u32 values are kept as two 16-bit limbs, value = hi * 2^16 + lo, so that *)
(* the whole range up to u32::MAX is representable.                         *)

U32(hi, lo) == [hi |-> hi, lo |-> lo]
U32FromNat(n) == U32(n \div 65536, n % 65536)
\* <u32>::max_value()
U32_MAX == U32(65535, 65535)

RECURSIVE U32Decimal(_)
\* Display of a u32, by long division of the limbs by ten.
U32Decimal(u) ==
    LET t == (u.hi % 10) * 65536 + u.lo
        q == U32(u.hi \div 10, t \div 10)
        d == DigitChars[(t % 10) + 1]
    IN IF q = U32(0, 0) THEN d ELSE U32Decimal(q) \o d

RECURSIVE DecimalValue(_)
\* The value of a string of ASCII digits.
DecimalValue(s) ==
    IF s = "" THEN 0
    ELSE 10 * DecimalValue(SubSeq(s, 1, Len(s) - 1)) + DigitVal(Char(s, Len(s)))

\* str::parse::<u32>: ASCII digits only (a non-ASCII digit is an error), and
\* the value must fit.  Up to nine digits always fit and are computed
\* directly; a longer string is taken here to overflow (the only caller
\* passes the five characters of the "part" capture).
parse_u32(s) ==
    IF s = "" \/ Len(s) > 9 \/ \E i \in 1..Len(s) : Char(s, i) \notin AsciiDigit
    THEN [ok |-> FALSE]
    ELSE [ok |-> TRUE, val |-> U32FromNat(DecimalValue(s))]

\* str::parse::<u8>: ASCII digits only, value at most 255.
parse_u8(s) ==
    IF s = "" \/ Len(s) > 9 \/ \E i \in 1..Len(s) : Char(s, i) \notin AsciiDigit
    THEN [ok |-> FALSE]
    ELSE IF DecimalValue(s) > 255 THEN [ok |-> FALSE]
    ELSE [ok |-> TRUE, val |-> DecimalValue(s)]

-----------------------------------------------------------------------------
(* CompressionType *)

CompressionType_from_str(s) ==
    IF s = "snappy" THEN Ok("SNAPPY")
    ELSE IF s = "gzip" THEN Ok("GZIP")
    ELSE IF s = "none" THEN Ok("NONE")
    ELSE Panic("unexpected compression name")

CompressionType_to_string(c) ==
    CASE c = "GZIP" -> "gzip"
      [] c = "SNAPPY" -> "snappy"
      [] c = "NONE" -> "none"

\* The derived Ord of the enum: the declaration order SNAPPY, GZIP, NONE.
CompressionRank(c) ==
    CASE c = "SNAPPY" -> 0
      [] c = "GZIP" -> 1
      [] c = "NONE" -> 2

-----------------------------------------------------------------------------
(* FILENAME_REGEX.  Every matcher takes the position to match at and gives  *)
(* the position after the match, or 0 when there is no match (0 is passed   *)
(* on).  The pattern starts with ^ and has no $, so a match is a match of a *)
(* prefix of the name; its last "." is unescaped and matches any character  *)
(* but a line feed.                                                         *)

MatchLit(s, pos, lit) ==
    IF pos = 0 \/ pos + Len(lit) - 1 > Len(s) THEN 0
    ELSE IF SubSeq(s, pos, pos + Len(lit) - 1) = lit THEN pos + Len(lit)
    ELSE 0

MatchClass(s, pos, class, n) ==
    IF pos = 0 \/ pos + n - 1 > Len(s) THEN 0
    ELSE IF \A i \in 1..n : Char(s, pos + i - 1) \in class THEN pos + n
    ELSE 0

MatchAny(s, pos) ==
    IF pos = 0 \/ pos > Len(s) THEN 0
    ELSE IF Char(s, pos) = "\n" THEN 0
    ELSE pos + 1

NoMatch == [matched |-> FALSE]

FILENAME_REGEX(s) ==
    LET p0 == MatchLit(s, 1, "part-")
        p1 == MatchClass(s, p0, ClassDigit, 5)
        u0 == MatchLit(s, p1, "-")
        u1 == MatchLit(s, MatchClass(s, u0, ClassHex, 8), "-")
        u2 == MatchLit(s, MatchClass(s, u1, ClassHex, 4), "-")
        u3 == MatchLit(s, MatchClass(s, u2, ClassHex, 4), "-")
        u4 == MatchLit(s, MatchClass(s, u3, ClassHex, 4), "-")
        u5 == MatchClass(s, u4, ClassHex, 12)
        c0 == MatchLit(s, u5, ".c")
        c1 == MatchClass(s, c0, ClassDigit, 3)
        k0 == MatchLit(s, c1, ".")
        ks == MatchLit(s, k0, "snappy")
        kg == MatchLit(s, k0, "gzip")
        kn == MatchLit(s, k0, "none")
        k1 == IF ks # 0 THEN ks ELSE IF kg # 0 THEN kg ELSE kn
        e0 == MatchAny(s, k1)
        e1 == MatchLit(s, e0, "parquet")
    IN IF e1 = 0 THEN NoMatch
       ELSE [matched |-> TRUE,
             part |-> SubSeq(s, p0, p1 - 1),
             uuid |-> SubSeq(s, u0, u5 - 1),
             c |-> SubSeq(s, c0, c1 - 1),
             compression |-> SubSeq(s, k0, k1 - 1)]

-----------------------------------------------------------------------------
(* Uuid: a u128 is kept as eight 16-bit limbs, most significant first;     *)
(* comparing two such sequences limb by limb compares the numbers.          *)

RECURSIVE HexDigitsOf(_)
\* The values of the hex digits of a string, its hyphens skipped.
HexDigitsOf(s) ==
    IF s = "" THEN <<>>
    ELSE IF Head(s) = "-" THEN HexDigitsOf(Tail(s))
    ELSE <<HexVal(Head(s))>> \o HexDigitsOf(Tail(s))

\* The u128 of 32 hex digit values.
U128FromHex(h) ==
    [i \in 1..8 |-> h[4 * i - 3] * 4096 + h[4 * i - 2] * 256
                        + h[4 * i - 1] * 16 + h[4 * i]]

\* Uuid::parse_str(..).unwrap().as_u128() on the hyphenated form the regex
\* has matched: the hex digits, either case, without the hyphens.
Uuid_parse_str(s) == U128FromHex(HexDigitsOf(s))

\* A limb in four lower-case hex digits.
Hex4(l) ==
    LowerHex[(l \div 4096) + 1] \o LowerHex[((l \div 256) % 16) + 1]
        \o LowerHex[((l \div 16) % 16) + 1] \o LowerHex[(l % 16) + 1]

\* Display of Uuid::from_u128(u): lower-case hex, hyphenated 8-4-4-4-12.
Uuid_display(u) ==
    Hex4(u[1]) \o Hex4(u[2]) \o "-" \o Hex4(u[3]) \o "-" \o Hex4(u[4]) \o "-"
        \o Hex4(u[5]) \o "-" \o Hex4(u[6]) \o Hex4(u[7]) \o Hex4(u[8])

-----------------------------------------------------------------------------
(* ParquetDeltaFile *)

ParquetDeltaFile(partition, uuid, cluster, compression) ==
    [partition |-> partition, uuid |-> uuid, cluster |-> cluster,
     compression |-> compression]

\* from_string with the "part" capture unwrapped like the "c" capture is.
from_captures_unwrapping(caps) ==
    IF ~caps.matched THEN Panic("unable to parse")
    ELSE LET p == parse_u32(caps.part)
             uuid == Uuid_parse_str(caps.uuid)
             cluster == parse_u8(caps.c)
             compression == CompressionType_from_str(caps.compression)
         IN IF ~p.ok \/ ~cluster.ok
            THEN Panic("called Result::unwrap() on an Err value")
            ELSE IF IsPanic(compression) THEN compression
            ELSE Ok(ParquetDeltaFile(p.val, uuid, cluster.val,
                                     compression.val))

\* The body of from_string once the regex has run.
from_captures(caps) ==
    IF ~caps.matched THEN Panic("unable to parse")
    ELSE LET p == parse_u32(caps.part)
             partition == IF p.ok THEN p.val ELSE U32_MAX
             uuid == Uuid_parse_str(caps.uuid)
             cluster == parse_u8(caps.c)
             compression == CompressionType_from_str(caps.compression)
         IN IF ~cluster.ok
            THEN Panic("called Result::unwrap() on an Err value")
            ELSE IF IsPanic(compression) THEN compression
            ELSE Ok(ParquetDeltaFile(partition, uuid, cluster.val,
                                     compression.val))

from_string(s) == from_captures(FILENAME_REGEX(s))

name(f) ==
    "part-" \o ZeroPad(U32Decimal(f.partition), 5) \o "-"
        \o Uuid_display(f.uuid) \o ".c" \o ZeroPad(NatDecimal(f.cluster), 3)
        \o "." \o CompressionType_to_string(f.compression) \o ".parquet"

-----------------------------------------------------------------------------
(* The derived orderings (PartialOrd, Ord): -1 less, 0 equal, 1 greater.    *)

CmpInt(a, b) == IF a < b THEN -1 ELSE IF a > b THEN 1 ELSE 0

RECURSIVE CmpIntSeq(_, _)
\* Lexicographic, a proper prefix being less.
CmpIntSeq(s, t) ==
    IF s = <<>> THEN (IF t = <<>> THEN 0 ELSE -1)
    ELSE IF t = <<>> THEN 1
    ELSE IF Head(s) # Head(t) THEN CmpInt(Head(s), Head(t))
    ELSE CmpIntSeq(Tail(s), Tail(t))

\* Ord of str.
CmpStr(s, t) ==
    CmpIntSeq([i \in 1..Len(s) |-> CharCode[Char(s, i)]],
              [i \in 1..Len(t) |-> CharCode[Char(t, i)]])

\* Ord of PartitionPath: key, then value.
CmpPartitionPath(p, q) ==
    IF CmpStr(p.key, q.key) # 0 THEN CmpStr(p.key, q.key)
    ELSE CmpStr(p.value, q.value)

RECURSIVE CmpSegments(_, _)
\* Ord of Vec<PartitionPath>.
CmpSegments(v, w) ==
    IF v = <<>> THEN (IF w = <<>> THEN 0 ELSE -1)
    ELSE IF w = <<>> THEN 1
    ELSE IF CmpPartitionPath(Head(v), Head(w)) # 0
         THEN CmpPartitionPath(Head(v), Head(w))
    ELSE CmpSegments(Tail(v), Tail(w))

\* Ord of ParquetDeltaFile: partition, uuid, cluster, compression.
CmpFile(f, g) ==
    IF f.partition # g.partition
    THEN CmpIntSeq(<<f.partition.hi, f.partition.lo>>,
                   <<g.partition.hi, g.partition.lo>>)
    ELSE IF f.uuid # g.uuid THEN CmpIntSeq(f.uuid, g.uuid)
    ELSE IF f.cluster # g.cluster THEN CmpInt(f.cluster, g.cluster)
    ELSE CmpInt(CompressionRank(f.compression), CompressionRank(g.compression))

\* Ord of (Vec<PartitionPath>, ParquetDeltaFile).
CmpEntry(a, b) ==
    IF CmpSegments(a[1], b[1]) # 0 THEN CmpSegments(a[1], b[1])
    ELSE CmpFile(a[2], b[2])

\* A from_paths that forgets to sort: the entries stay in input order.
sorted_omitted(s) == s

RECURSIVE sorted(_)
\* Itertools::sorted on the parsed entries: a stable sort by CmpEntry.
sorted(s) ==
    IF Len(s) <= 1 THEN s
    ELSE LET rest == sorted(SubSeq(s, 1, Len(s) - 1))
             x == s[Len(s)]
             k == Cardinality({i \in 1..Len(rest) : CmpEntry(rest[i], x) <= 0})
         IN SubSeq(rest, 1, k) \o <<x>> \o SubSeq(rest, k + 1, Len(rest))

RECURSIVE sort_strings(_)
\* Vec<String>::sort.
sort_strings(s) ==
    IF Len(s) <= 1 THEN s
    ELSE LET rest == sort_strings(SubSeq(s, 1, Len(s) - 1))
             x == s[Len(s)]
             k == Cardinality({i \in 1..Len(rest) : CmpStr(rest[i], x) <= 0})
         IN SubSeq(rest, 1, k) \o <<x>> \o SubSeq(rest, k + 1, Len(rest))

-----------------------------------------------------------------------------
(* DeltaTree *)

FileEntries(files) == [kind |-> "FileEntries", files |-> files]
Partition(key, values) == [kind |-> "Partition", name |-> key, values |-> values]
DeltaTree(root) == [root |-> root]

\* HashMap::new and HashMap::insert: a map is a function on its keys, and
\* an insert under a key already there replaces its value.
HashMap_new == <<>>
HashMap_insert(m, k, v) ==
    [x \in (DOMAIN m) \cup {k} |-> IF x = k THEN v ELSE m[x]]

\* str::find of a character: the first index (from 1) or 0.
find(s, ch) ==
    IF \A i \in 1..Len(s) : Char(s, i) # ch THEN 0
    ELSE CHOOSE i \in 1..Len(s) :
            Char(s, i) = ch /\ \A j \in 1..(i - 1) : Char(s, j) # ch

RECURSIVE split(_, _)
\* str::split of a character: the pieces between the separators, the empty
\* ones included.
split(s, sep) ==
    LET i == find(s, sep)
    IN IF i = 0 THEN <<s>>
       ELSE <<SubSeq(s, 1, i - 1)>> \o split(SubSeq(s, i + 1, Len(s)), sep)

None == [some |-> FALSE]
PartitionPath(key, value) == [some |-> TRUE, key |-> key, value |-> value]

\* The index (from 1) of the last occurrence of a character, or 0.
rfind(s, ch) ==
    IF \A i \in 1..Len(s) : Char(s, i) # ch THEN 0
    ELSE CHOOSE i \in 1..Len(s) :
            Char(s, i) = ch /\ \A j \in (i + 1)..Len(s) : Char(s, j) # ch

\* A key_value that splits at the last "=" instead of the first.
key_value_at_last(path) ==
    LET idx == rfind(path, "=")
    IN IF idx # 0
       THEN PartitionPath(SubSeq(path, 1, idx - 1),
                          SubSeq(path, idx + 1, Len(path)))
       ELSE None

key_value(path) ==
    LET idx == find(path, "=")
    IN IF idx # 0
       THEN PartitionPath(SubSeq(path, 1, idx - 1),
                          SubSeq(path, idx + 1, Len(path)))
       ELSE None

\* The body of parse_path once the file name is parsed and every remaining
\* component is split.
parse_path_parts(parquet, remaining_path) ==
    IF IsPanic(parquet) THEN parquet
    ELSE IF \E i \in 1..Len(remaining_path) : ~remaining_path[i].some
    THEN Panic("called Option::unwrap() on a None value")
    ELSE Ok(<<[i \in 1..Len(remaining_path) |->
                 [key |-> remaining_path[i].key,
                  value |-> remaining_path[i].value]],
              parquet.val>>)

parse_path(path) ==
    parse_path_parts(from_string(path[Len(path)]),
                     [i \in 1..(Len(path) - 1) |-> key_value(path[i])])

\* A run that always starts at the first entry: current_index ignored.
slice_from_start(paths, from, to) == SubSeq(paths, 1, to)

\* &paths[from..to], the indices counting from 0, to excluded.
slice(paths, from, to) == SubSeq(paths, from + 1, to)

RECURSIVE build_partition(_, _)
RECURSIVE build_partition_loop(_, _, _, _, _, _)

\* The for loop of build_partition and what follows it; idx counts from 0
\* as in the source, and paths[idx + 1] is the element at idx.
build_partition_loop(paths, level, idx, current_value, current_index, children) ==
    LET first_entry == paths[1]
        key_name == first_entry[1][level + 1].key
    IN IF idx = Len(paths)
       THEN LET last_child ==
                    build_partition(slice(paths, current_index, Len(paths)),
                                    level + 1)
            IN IF IsPanic(last_child) THEN last_child
               ELSE Ok(Partition(key_name,
                          HashMap_insert(children, current_value, last_child.val)))
       ELSE LET path == paths[idx + 1]
            IN IF Len(path[1]) # Len(first_entry[1])
               THEN Panic("assertion failed: path.0.len() == first_entry.0.len()")
               ELSE IF path[1][level + 1].key # key_name
               THEN Panic("assertion failed: key == name")
               ELSE IF path[1][level + 1].value # current_value
               THEN LET child ==
                            build_partition(slice(paths, current_index, idx),
                                            level + 1)
                    IN IF IsPanic(child) THEN child
                       ELSE build_partition_loop(paths, level, idx + 1,
                                path[1][level + 1].value, idx,
                                HashMap_insert(children, current_value, child.val))
               ELSE build_partition_loop(paths, level, idx + 1, current_value,
                                         current_index, children)

build_partition(paths, level) ==
    IF paths = <<>> THEN Ok(FileEntries(<<>>))
    ELSE LET first_entry == paths[1]
         IN IF level < Len(first_entry[1])
            THEN build_partition_loop(paths, level, 0,
                     first_entry[1][level + 1].value, 0, HashMap_new)
            ELSE Ok(FileEntries([i \in 1..Len(paths) |-> paths[i][2]]))

\* A collection that skips the entries that did not parse.
collect_parsed_skipping(parsed_paths) ==
    Ok([i \in 1..Len(SelectSeq(parsed_paths, IsOk)) |->
            SelectSeq(parsed_paths, IsOk)[i].val])

\* The results of the map over the input, in input order: the first panic,
\* or every parsed entry.
collect_parsed(parsed_paths) ==
    IF \E i \in 1..Len(parsed_paths) : IsPanic(parsed_paths[i])
    THEN parsed_paths[CHOOSE i \in 1..Len(parsed_paths) :
            /\ IsPanic(parsed_paths[i])
            /\ \A j \in 1..(i - 1) : ~IsPanic(parsed_paths[j])]
    ELSE Ok([i \in 1..Len(parsed_paths) |-> parsed_paths[i].val])

\* The rest of from_paths once the entries are parsed: sort, build, wrap.
build_root(components) ==
    IF IsPanic(components) THEN components
    ELSE LET partition == build_partition(sorted(components.val), 0)
         IN IF IsPanic(partition) THEN partition
            ELSE Ok(DeltaTree(partition.val))

from_paths(input) ==
    IF input = <<>> THEN Ok(DeltaTree(FileEntries(<<>>)))
    ELSE build_root(collect_parsed(
            [i \in 1..Len(input) |-> parse_path(split(input[i], "/"))]))

\* The orders a HashMap may be iterated in: any order of its keys.
IterationOrders(m) ==
    {o \in [1..Cardinality(DOMAIN m) -> DOMAIN m] :
        \A i, j \in 1..Cardinality(DOMAIN m) : o[i] = o[j] => i = j}

RECURSIVE files_in_subtree(_, _)
RECURSIVE flat_map(_, _, _)

\* The flat_map over the children taken in the given order: every list it
\* can yield.
flat_map(prefix, node, order) ==
    IF order = <<>> THEN {<<>>}
    ELSE LET value == Head(order)
             sub_prefix == prefix \o node.name \o "=" \o value \o "/"
         IN {a \o b : a \in files_in_subtree(sub_prefix, node.values[value]),
                      b \in flat_map(prefix, node, Tail(order))}

\* Every list files_in_subtree can return, one per iteration order of the
\* maps below the node.
files_in_subtree(prefix, node) ==
    IF node.kind = "FileEntries"
    THEN {[i \in 1..Len(node.files) |-> prefix \o name(node.files[i])]}
    ELSE UNION {flat_map(prefix, node, o) : o \in IterationOrders(node.values)}

files(t) == files_in_subtree("", t.root)

-----------------------------------------------------------------------------
(* The file names the codec is run on: every combination of the fields     *)
(* below, well-formed and not, followed by up to MaxTail more characters.  *)

MaxTail == 1

RECURSIVE Repeat(_, _)
Repeat(c, n) == IF n = 0 THEN "" ELSE c \o Repeat(c, n - 1)

\* A uuid of zeros but for its last digit.
UuidEnding(last) == "00000000-0000-0000-0000-00000000000" \o last

HeadFields == {"part-", "Part-"}
PartFields == {"00000", "00007", "99999", "0000#", "0007"}
UuidFields ==
    {UuidEnding("0"), UuidEnding("1"), UuidEnding("a"), UuidEnding("A"),
     UuidEnding("g"), "477077ae-1429-4633-b07a-0c0cb75caf55",
     "00000000-0000-0000-0000-00000000000"}
ClusterFields == {"000", "001", "177", "255", "256", "999", "00#", "01"}
CompressionFields == {"snappy", "gzip", "none", "lz4"}
SeparatorFields == {".", "_"}
TailFields == {Repeat("x", n) : n \in 0..MaxTail}

NamePool ==
    {h \o p \o "-" \o u \o ".c" \o c \o "." \o k \o d \o "parquet" \o t :
        h \in HeadFields, p \in PartFields, u \in UuidFields,
        c \in ClusterFields, k \in CompressionFields,
        d \in SeparatorFields, t \in TailFields}
        \cup {"bogus.txt", ""}

-----------------------------------------------------------------------------
(* The codec as a state machine: a name is parsed, and what was parsed is  *)
(* rendered.                                                               *)

TreeIdle ==
    /\ input_files = <<>>
    /\ tree = NotRun
    /\ files_from_tree = NotRun
    /\ reordered = <<>>
    /\ tree_reordered = NotRun

CodecIdle ==
    /\ input_name = ""
    /\ parsed = NotRun
    /\ rendered = NotRun

KvIdle ==
    /\ component = ""
    /\ kv = NotRun

InitCodec ==
    /\ input_name \in NamePool
    /\ parsed = NotRun
    /\ rendered = NotRun
    /\ TreeIdle
    /\ KvIdle

FromString ==
    /\ parsed = NotRun
    /\ parsed' = from_string(input_name)
    /\ UNCHANGED <<input_name, rendered>>
    /\ UNCHANGED <<treeVars, kvVars>>

Name ==
    /\ IsOk(parsed)
    /\ rendered = NotRun
    /\ rendered' = Ok(name(parsed.val))
    /\ UNCHANGED <<input_name, parsed>>
    /\ UNCHANGED <<treeVars, kvVars>>

NextCodec == FromString \/ Name

SpecCodec == InitCodec /\ [][NextCodec]_vars

-----------------------------------------------------------------------------
(* The partition tree as a state machine: a list of at most MaxPaths paths  *)
(* is built into a tree; the tree is flattened, or the same paths are built *)
(* again in another order.                                                  *)

MaxPaths == 3

\* F1 and F2 of the source's tests, a name of the canonical shape whose
\* cluster field is 256, and a name that is no parquet file name.
F1 == "part-00007-00000000-0000-0000-0000-000000000000.c000.snappy.parquet"
F2 == "part-00007-00000000-0000-0000-0000-000000000001.c001.snappy.parquet"
F256 == "part-00007-00000000-0000-0000-0000-000000000002.c256.snappy.parquet"
Bogus == "bogus.txt"

PathPool ==
    {F1,
     "a=1/" \o F1, "a=1/" \o F2, "a=2/" \o F1,
     "b=1/" \o F1,
     "a=1/b=1/" \o F1, "a=1/b=1/" \o F2, "a=1/b=2/" \o F1, "a=2/c=1/" \o F1,
     "x/" \o F1,
     "a=1/" \o Bogus,
     "a=1/" \o F256}

InputLists == UNION {[1..n -> PathPool] : n \in 0..MaxPaths}

Init ==
    /\ input_files \in InputLists
    /\ tree = NotRun
    /\ files_from_tree = NotRun
    /\ reordered = <<>>
    /\ tree_reordered = NotRun
    /\ CodecIdle
    /\ KvIdle

FromPaths ==
    /\ tree = NotRun
    /\ tree' = from_paths(input_files)
    /\ UNCHANGED <<input_files, files_from_tree, reordered, tree_reordered>>
    /\ UNCHANGED <<codecVars, kvVars>>

Files ==
    /\ IsOk(tree)
    /\ files_from_tree = NotRun
    /\ tree_reordered = NotRun
    /\ \E fs \in files(tree.val) : files_from_tree' = Ok(fs)
    /\ UNCHANGED <<input_files, tree, reordered, tree_reordered>>
    /\ UNCHANGED <<codecVars, kvVars>>

\* The same paths in the order o (a permutation of the indices).
Permuted(paths, o) == [i \in 1..Len(paths) |-> paths[o[i]]]
IndexOrders(n) ==
    {o \in [1..n -> 1..n] : \A i, j \in 1..n : o[i] = o[j] => i = j}

FromPathsReordered ==
    /\ tree # NotRun
    /\ files_from_tree = NotRun
    /\ tree_reordered = NotRun
    /\ \E o \in IndexOrders(Len(input_files)) :
          /\ reordered' = Permuted(input_files, o)
          /\ tree_reordered' = from_paths(reordered')
    /\ UNCHANGED <<input_files, tree, files_from_tree>>
    /\ UNCHANGED <<codecVars, kvVars>>

Next == FromPaths \/ Files \/ FromPathsReordered

Spec == Init /\ [][Next]_vars

-----------------------------------------------------------------------------
(* key_value as a state machine: a component of at most MaxComponentLen     *)
(* characters is split.                                                     *)

MaxComponentLen == 4

ComponentChars == {"a", "1", "="}
RECURSIVE StringsUpTo(_)
StringsUpTo(n) ==
    IF n = 0 THEN {""}
    ELSE StringsUpTo(n - 1)
            \cup {s \o c : s \in {t \in StringsUpTo(n - 1) : Len(t) = n - 1},
                            c \in ComponentChars}
ComponentPool == StringsUpTo(MaxComponentLen)

InitKv ==
    /\ component \in ComponentPool
    /\ kv = NotRun
    /\ TreeIdle
    /\ CodecIdle

KeyValue ==
    /\ kv = NotRun
    /\ kv' = Ok(key_value(component))
    /\ UNCHANGED component
    /\ UNCHANGED <<treeVars, codecVars>>

NextKv == KeyValue

SpecKv == InitKv /\ [][NextKv]_vars

-----------------------------------------------------------------------------
(* The source's tests, replayed on the model. *)

FE(n) == ParquetDeltaFile(U32(0, 7), Uuid_parse_str(UuidEnding(DigitChars[n + 1])),
                          n, "SNAPPY")
F3 == "part-00007-00000000-0000-0000-0000-000000000002.c002.snappy.parquet"
F4 == "part-00007-00000000-0000-0000-0000-000000000003.c003.snappy.parquet"

NestedPaths ==
    <<"a=1/b=1/" \o F1, "a=4/b=2/" \o F2, "a=1/b=7/" \o F3, "a=4/b=1/" \o F4>>

SourceTestsTree ==
    /\ from_paths(<<F1, F2, F3, F4>>) =
          Ok(DeltaTree(FileEntries(<<FE(0), FE(1), FE(2), FE(3)>>)))
    /\ from_paths(NestedPaths) =
          Ok(DeltaTree(Partition("a",
              ("1" :> Partition("b",
                    ("1" :> FileEntries(<<FE(0)>>)) @@ ("7" :> FileEntries(<<FE(2)>>))))
              @@ ("4" :> Partition("b",
                    ("1" :> FileEntries(<<FE(3)>>)) @@ ("2" :> FileEntries(<<FE(1)>>)))))))
    /\ \A fs \in files(from_paths(NestedPaths).val) :
          sort_strings(fs) = sort_strings(NestedPaths)
    /\ Cardinality(files(from_paths(NestedPaths).val)) = 8
    /\ key_value("a=13") = PartitionPath("a", "13")
    /\ key_value("askaban") = None
    /\ key_value("some-key=some-value-with-=-sign-in-the-middle")
         = PartitionPath("some-key", "some-value-with-=-sign-in-the-middle")

\* test_file_name_parse, test_regex_filename and file_name_round_trip.
TestName == "part-00009-477077ae-1429-4633-b07a-0c0cb75caf55.c177.snappy.parquet"

SourceTestsCodec ==
    /\ from_string(TestName) =
          Ok(ParquetDeltaFile(U32(0, 9),
               <<18288, 30638, 5161, 17971, 45178, 3084, 46940, 44885>>,
               177, "SNAPPY"))
    /\ \A f \in {TestName, F1, F2, F3, F4} : name(from_string(f).val) = f
    /\ FILENAME_REGEX(TestName).part = "00009"
    /\ FILENAME_REGEX(TestName).uuid = "477077ae-1429-4633-b07a-0c0cb75caf55"
    /\ FILENAME_REGEX(TestName).c = "177"
    /\ FILENAME_REGEX(TestName).compression = "snappy"
    /\ Uuid_parse_str(UuidEnding("a")) = Uuid_parse_str(UuidEnding("A"))
    /\ name(ParquetDeltaFile(U32_MAX, Uuid_parse_str(UuidEnding("F")), 7, "GZIP"))
         = "part-4294967295-00000000-0000-0000-0000-00000000000f.c007.gzip.parquet"
    /\ IsPanic(from_string("bogus.txt"))

-----------------------------------------------------------------------------
(* What the claims speak of. *)

\* The canonical file name grammar, anchored at both ends:
\* part-DDDDD-HHHHHHHH-HHHH-HHHH-HHHH-HHHHHHHHHHHH.cCCC.(snappy|gzip|none).parquet
MatchesGrammar(s) ==
    \E k \in {"snappy", "gzip", "none"} :
        /\ Len(s) = 53 + Len(k) + 8
        /\ SubSeq(s, 1, 5) = "part-"
        /\ \A i \in 6..10 : Char(s, i) \in AsciiDigit
        /\ \A i \in {11, 20, 25, 30, 35} : Char(s, i) = "-"
        /\ \A i \in (12..47) \ {20, 25, 30, 35} : Char(s, i) \in ClassHex
        /\ SubSeq(s, 48, 49) = ".c"
        /\ \A i \in 50..52 : Char(s, i) \in AsciiDigit
        /\ Char(s, 53) = "."
        /\ SubSeq(s, 54, 53 + Len(k)) = k
        /\ SubSeq(s, 54 + Len(k), Len(s)) = ".parquet"

Components(path) == split(path, "/")
FileNameOf(path) == Components(path)[Len(Components(path))]
SegmentCount(path) == Len(Components(path)) - 1
HasEquals(c) == \E i \in 1..Len(c) : Char(c, i) = "="
KeyOf(c) ==
    SubSeq(c, 1, (CHOOSE i \in 1..Len(c) :
                    Char(c, i) = "=" /\ \A j \in 1..(i - 1) : Char(c, j) # "=") - 1)

\* key1=value1/.../<file name>, the file name matching the grammar.
ValidPath(path) ==
    /\ MatchesGrammar(FileNameOf(path))
    /\ \A d \in 1..SegmentCount(path) : HasEquals(Components(path)[d])

\* The paths agree on the number of segments and on the key at each depth.
UniformSchema(paths) ==
    \A i, j \in 1..Len(paths) :
        /\ SegmentCount(paths[i]) = SegmentCount(paths[j])
        /\ \A d \in 1..SegmentCount(paths[i]) :
              KeyOf(Components(paths[i])[d]) = KeyOf(Components(paths[j])[d])

\* An entry from_paths cannot parse: its file name is rejected by
\* from_string, or a non-final component holds no "=".
Malformed(path) ==
    \/ IsPanic(from_string(FileNameOf(path)))
    \/ \E d \in 1..SegmentCount(path) : ~HasEquals(Components(path)[d])

RECURSIVE LeafDepths(_, _)
\* The depths of the FileEntries nodes at or below a node at depth d.
LeafDepths(node, d) ==
    IF node.kind = "FileEntries" THEN {d}
    ELSE UNION {LeafDepths(node.values[v], d + 1) : v \in DOMAIN node.values}

Count(seq, x) == Cardinality({i \in 1..Len(seq) : seq[i] = x})

RECURSIVE WellGrouped(_, _, _)
\* The node at depth d is what grouping the entries by value gives: a
\* Partition has one child per value the entries have at depth d, each
\* child grouping the entries of its value; a FileEntries node lists the
\* files of the entries, each as often as it occurs, in ascending order.
WellGrouped(node, d, entries) ==
    IF node.kind = "FileEntries"
    THEN /\ \A i \in 1..Len(entries) :
              Count(node.files, entries[i][2]) =
                Count([j \in 1..Len(entries) |-> entries[j][2]], entries[i][2])
         /\ Len(node.files) = Len(entries)
         /\ \A i, j \in 1..Len(node.files) :
              i < j => CmpFile(node.files[i], node.files[j]) <= 0
    ELSE /\ DOMAIN node.values # {}
         /\ DOMAIN node.values =
              {entries[i][1][d + 1].value : i \in 1..Len(entries)}
         /\ \A i \in 1..Len(entries) : entries[i][1][d + 1].key = node.name
         /\ \A v \in DOMAIN node.values :
              WellGrouped(node.values[v], d + 1,
                  SelectSeq(entries, LAMBDA e : e[1][d + 1].value = v))

ParsedInput == [i \in 1..Len(input_files) |->
                    parse_path(Components(input_files[i])).val]

-----------------------------------------------------------------------------
(* The claims. *)

\* C1: tree round trip.  For every list of valid paths sharing a uniform
\* partition schema, from_paths succeeds and files() holds exactly the
\* paths of the list (sorted, the two lists are equal).
C1_TreeRoundTrip ==
    (tree # NotRun /\ (\A i \in 1..Len(input_files) : ValidPath(input_files[i]))
        /\ UniformSchema(input_files))
    => /\ IsOk(tree)
       /\ files_from_tree # NotRun =>
            sort_strings(files_from_tree.val) = sort_strings(input_files)

\* The round trip does hold of the lists whose file names from_string and
\* name() carry over unchanged.
TreeRoundTripOfRenderableNames ==
    (tree # NotRun /\ (\A i \in 1..Len(input_files) : ValidPath(input_files[i]))
        /\ UniformSchema(input_files)
        /\ \A i \in 1..Len(input_files) :
              /\ IsOk(from_string(FileNameOf(input_files[i])))
              /\ name(from_string(FileNameOf(input_files[i])).val)
                   = FileNameOf(input_files[i]))
    => /\ IsOk(tree)
       /\ files_from_tree # NotRun =>
            sort_strings(files_from_tree.val) = sort_strings(input_files)

\* C2: name round trip.  For every name matching the canonical grammar,
\* from_string succeeds and name() of the result is the name again.
C2_NameRoundTrip ==
    (parsed # NotRun /\ MatchesGrammar(input_name))
    => /\ IsOk(parsed)
       /\ rendered # NotRun => rendered.val = input_name

\* C3: whenever two paths of the input differ in their number of partition
\* segments, from_paths fails and returns no tree.
C3_DifferingSegmentCountsRejected ==
    (tree # NotRun
        /\ \E i, j \in 1..Len(input_files) :
              SegmentCount(input_files[i]) # SegmentCount(input_files[j]))
    => IsPanic(tree)

\* C4: whenever two paths of the input disagree on the partition key name at
\* the same depth, from_paths fails and returns no tree.
C4_KeyDisagreementFatal ==
    (tree # NotRun
        /\ \E i, j \in 1..Len(input_files) :
              \E d \in 1..SegmentCount(input_files[i]) :
                /\ d <= SegmentCount(input_files[j])
                /\ HasEquals(Components(input_files[i])[d])
                /\ HasEquals(Components(input_files[j])[d])
                /\ KeyOf(Components(input_files[i])[d])
                     # KeyOf(Components(input_files[j])[d]))
    => IsPanic(tree)

\* C5: strict grammar.  from_string fails for every name that does not match
\* the canonical grammar exactly, anchored at both ends.
C5_StrictGrammar ==
    (parsed # NotRun /\ ~MatchesGrammar(input_name)) => IsPanic(parsed)

\* C6: order independence.  Building any permutation of the input succeeds
\* exactly when building the input does, and then gives an equal tree.
C6_OrderIndependence ==
    tree_reordered # NotRun
    => /\ IsOk(tree_reordered) <=> IsOk(tree)
       /\ IsOk(tree) => tree_reordered.val = tree.val

C6_Witness ==
    /\ tree_reordered # NotRun
    /\ IsOk(tree)
    /\ Len(input_files) = 3
    /\ reordered # input_files
    /\ reordered[1] = input_files[3]
    /\ tree.val.root.kind = "Partition"
    /\ Cardinality(DOMAIN tree.val.root.values) = 2
    /\ sorted(ParsedInput) # ParsedInput

\* C7: all-or-nothing build.  If any entry of the input is malformed, at any
\* position and among any number of valid entries, from_paths fails as a
\* whole: no tree is returned.
C7_AllOrNothing ==
    (tree # NotRun /\ \E i \in 1..Len(input_files) : Malformed(input_files[i]))
    => IsPanic(tree)

C7_Witness ==
    /\ IsPanic(tree)
    /\ Len(input_files) = 3
    /\ ValidPath(input_files[1]) /\ ~Malformed(input_files[1])
    /\ ValidPath(input_files[2]) /\ ~Malformed(input_files[2])
    /\ Malformed(input_files[3])
    /\ UniformSchema(SubSeq(input_files, 1, 2))

\* C8: uniform depth.  In every tree returned for a non-empty input all
\* FileEntries nodes lie at one depth, the number of partition segments of
\* every input path.
C8_UniformDepth ==
    (IsOk(tree) /\ input_files # <<>>)
    => \A i \in 1..Len(input_files) :
          LeafDepths(tree.val.root, 0) = {SegmentCount(input_files[i])}

\* The depth is uniform whenever the segment counts of the input agree.
UniformDepthWhenCountsAgree ==
    (IsOk(tree) /\ input_files # <<>>
        /\ \A i, j \in 1..Len(input_files) :
              SegmentCount(input_files[i]) = SegmentCount(input_files[j]))
    => \A i \in 1..Len(input_files) :
          LeafDepths(tree.val.root, 0) = {SegmentCount(input_files[i])}

\* C9: key_value returns None exactly when the component holds no "=";
\* otherwise it splits at the first "=": the key holds no "=", and key, "="
\* and value together are the component again.
C9_KeyValueSplit ==
    kv # NotRun
    => /\ kv.val = None <=> ~HasEquals(component)
       /\ kv.val # None =>
            /\ ~HasEquals(kv.val.key)
            /\ kv.val.key \o "=" \o kv.val.value = component

C9_Witness ==
    /\ kv # NotRun
    /\ kv.val # None
    /\ kv.val.key # ""
    /\ HasEquals(kv.val.value)

\* C10: grouping by value.  In every tree returned, each Partition node has
\* exactly one child per distinct value its entries have at its depth, the
\* child under a value is built from exactly the entries with that value,
\* and the FileEntries nodes below list their files in ascending order.
C10_GroupingByValue ==
    (IsOk(tree) /\ tree.val.root.kind = "Partition")
    => WellGrouped(tree.val.root, 0, ParsedInput)

C10_Witness ==
    /\ IsOk(tree)
    /\ tree.val.root.kind = "Partition"
    /\ Cardinality(DOMAIN tree.val.root.values) = 2
    /\ \E v \in DOMAIN tree.val.root.values :
          /\ tree.val.root.values[v].kind = "FileEntries"
          /\ Len(tree.val.root.values[v].files) = 2
    /\ sorted(ParsedInput) # ParsedInput

\* C11: lenient partition index.  For every name FILENAME_REGEX accepts,
\* from_string does not fail on account of the "part" field (when it fails,
\* the "c" field is what does not parse); the partition of the descriptor is
\* the decimal value of the field, within 0..99999, when the field parses as
\* a u32 (all five characters ASCII digits), and otherwise u32::MAX, which
\* displays as 4294967295.
C11_LenientPartitionIndex ==
    (parsed # NotRun /\ FILENAME_REGEX(input_name).matched)
    => LET field == SubSeq(input_name, 6, 10)
           cfield == FILENAME_REGEX(input_name).c
           parses == \A i \in 1..Len(field) : Char(field, i) \in AsciiDigit
       IN /\ field = FILENAME_REGEX(input_name).part
          /\ IsPanic(parsed) =>
                \/ \E i \in 1..Len(cfield) : Char(cfield, i) \notin AsciiDigit
                \/ DecimalValue(cfield) > 255
          /\ (IsOk(parsed) /\ parses) =>
                /\ DecimalValue(field) \in 0..99999
                /\ parsed.val.partition.hi * 65536 + parsed.val.partition.lo
                       = DecimalValue(field)
          /\ (IsOk(parsed) /\ ~parses) =>
                /\ parsed.val.partition = U32(65535, 65535)
                /\ U32Decimal(parsed.val.partition) = "4294967295"

C11_Witness ==
    /\ IsOk(parsed)
    /\ FILENAME_REGEX(input_name).matched
    /\ \E i \in 6..10 : Char(input_name, i) \notin AsciiDigit
    /\ parsed.val.partition = U32(65535, 65535)

====
